---- MODULE Spec2Model ----
(***************************************************************************)
(* A model of yelp/client.py: the Client of the Yelp v2 REST API.  Every   *)
(* public operation builds a mapping of query parameters, hands the quoted *)
(* endpoint URL and the mapping to the authenticator, opens the signed URL *)
(* once, parses the JSON body and wraps the document.                      *)
(*                                                                         *)
(* Strings are sequences of one-character strings, so that formatting is   *)
(* computed character by character.  Numbers are records: Python ints, and *)
(* Python floats with one decimal digit held in tenths (378 is 37.8).      *)
(***************************************************************************)
EXTENDS Integers, Sequences, FiniteSets, TLC

\* The number of calls made on one Client in a behaviour.
MaxCalls == 2

(***************************************************************************)
(* Values                                                                  *)
(***************************************************************************)
None == [kind |-> "None", v |-> 0]
PyInt(n) == [kind |-> "int", v |-> n]
PyFloat(t) == [kind |-> "float", v |-> t]

\* latitudes and longitudes a caller passes: 37.8 and -122.4
Nums == {PyFloat(378), PyFloat(-1224)}
\* what a caller passes for an optional numeric argument (default None)
Opts == {None, PyInt(0), PyFloat(25)}
\* what a caller passes for accuracy and altitude_accuracy, and for altitude
Accuracies == {None, PyInt(0)}
Altitudes == {None, PyFloat(25)}

Locations == {<<"S", "F">>, <<"N", "Y", "C">>}
Phones == {<<"+", "1", "4", "1", "5">>, <<"9", "0", "8">>}
BusinessIds == {<<"y", "e", "l", "p">>, <<"c", "a", "f", "é">>, <<"a", " ", "b">>}

\* names a caller may give among **url_params; "location", "phone" and the
\* other named arguments cannot arrive there (Python binds them to the
\* named argument or rejects the call)
UrlKeys == {"term", "cll", "bounds", "ll"}
UrlVal(k) == IF k = "term" THEN <<"f", "o", "o", "d">> ELSE <<"1", ",", "2">>
\* every mapping of additional parameters over UrlKeys
UrlParams == {[k \in D |-> UrlVal(k)] : D \in SUBSET UrlKeys}

\* HTTP error answers: the status and the error id of the body
HttpErrors == {[code |-> 400, id |-> "INVALID_PARAMETER"],
               [code |-> 400, id |-> "BUSINESS_UNAVAILABLE"],
               [code |-> 500, id |-> "INTERNAL_ERROR"]}
\* response bodies: two JSON documents and one malformed body
Bodies == {"{\"name\": \"a\"}", "{\"total\": 0}", "{\"name\": "}
NoValue == "<none>"
NoError == [code |-> 0, id |-> NoValue]

(***************************************************************************)
(* str() and '{0}'.format() of a number                                    *)
(***************************************************************************)
DigitChar(d) == <<"0", "1", "2", "3", "4", "5", "6", "7", "8", "9">>[d + 1]

RECURSIVE Digits(_)
Digits(n) == IF n < 10 THEN <<DigitChar(n)>>
             ELSE Digits(n \div 10) \o <<DigitChar(n % 10)>>

Abs(n) == IF n < 0 THEN -n ELSE n
Sign(n) == IF n < 0 THEN <<"-">> ELSE <<>>

Str(x) ==
    CASE x.kind = "int" -> Sign(x.v) \o Digits(Abs(x.v))
      [] x.kind = "float" ->
            Sign(x.v) \o Digits(Abs(x.v) \div 10) \o <<".">>
                \o <<DigitChar(Abs(x.v) % 10)>>
      [] OTHER -> <<"N", "o", "n", "e">>

(***************************************************************************)
(* The formatting helpers of Client                                        *)
(***************************************************************************)
_format_current_lat_long(lat, long) == Str(lat) \o <<",">> \o Str(long)

\* a slip in _format_bounds: the north-east pair first
format_bounds_swapped(sw_latitude, sw_longitude, ne_latitude, ne_longitude) ==
    Str(ne_latitude) \o <<",">> \o Str(ne_longitude) \o <<"|">>
        \o Str(sw_latitude) \o <<",">> \o Str(sw_longitude)

_format_bounds(sw_latitude, sw_longitude, ne_latitude, ne_longitude) ==
    Str(sw_latitude) \o <<",">> \o Str(sw_longitude) \o <<"|">>
        \o Str(ne_latitude) \o <<",">> \o Str(ne_longitude)

\* the for loop of _format_coordinates: append while the field is set, break
\* at the first None
RECURSIVE CoordLoop(_, _)
CoordLoop(coord, fields) ==
    IF fields = <<>> THEN coord
    ELSE IF Head(fields) # None
         THEN CoordLoop(coord \o <<",">> \o Str(Head(fields)), Tail(fields))
         ELSE coord

\* a slip in _format_coordinates: "continue" where the code has "break"
RECURSIVE CoordLoopContinue(_, _)
CoordLoopContinue(coord, fields) ==
    IF fields = <<>> THEN coord
    ELSE IF Head(fields) # None
         THEN CoordLoopContinue(coord \o <<",">> \o Str(Head(fields)),
                                Tail(fields))
         ELSE CoordLoopContinue(coord, Tail(fields))

format_coordinates_continue(latitude, longitude, accuracy, altitude, altitude_accuracy) ==
    CoordLoopContinue(Str(latitude) \o <<",">> \o Str(longitude),
                      <<accuracy, altitude, altitude_accuracy>>)

_format_coordinates(latitude, longitude, accuracy, altitude, altitude_accuracy) ==
    CoordLoop(Str(latitude) \o <<",">> \o Str(longitude),
              <<accuracy, altitude, altitude_accuracy>>)

\* a slip in dict[key] = value: a new mapping that holds the key alone
DictSet_replace(d, key, value) == [k \in {key} |-> value]

\* dict[key] = value
DictSet(d, key, value) ==
    [k \in DOMAIN d \cup {key} |-> IF k = key THEN value ELSE d[k]]

(***************************************************************************)
(* yelp.config and urllib.quote                                            *)
(***************************************************************************)
API_HOST == <<"api.yelp.com">>
BUSINESS_PATH == <<"/v2/business/">>
SEARCH_PATH == <<"/v2/search/">>
PHONE_SEARCH_PATH == <<"/v2/phone_search/">>

\* path.encode('utf-8') followed by urllib.quote: every byte outside the
\* unreserved set and '/' becomes %XX
QuoteChar(c) ==
    CASE c = " " -> <<"%", "2", "0">>
      [] c = "é" -> <<"%", "C", "3", "%", "A", "9">>
      [] OTHER -> <<c>>

RECURSIVE Quote(_)
Quote(s) == IF s = <<>> THEN <<>> ELSE QuoteChar(Head(s)) \o Quote(Tail(s))

(***************************************************************************)
(* State                                                                   *)
(***************************************************************************)
VARIABLES
    pc,              \* where the call in progress stands
    call,            \* the operation called and its arguments as the caller gave them
    wrapper_cls,     \* the wrapper the operation builds over the document
    path,            \* the path argument of _make_request
    url_params,      \* the mapping argument of _make_request: [id, map]
    signed_url,      \* what sign_request returned in this call
    signs,           \* sign_request invocations of this call
    requests,        \* urlopen invocations of this call
    opened_url,      \* the URL given to urlopen
    conn,            \* the connection of this call: "none", "open", "closed"
    closes,          \* conn.close() invocations of this call
    error,           \* the HTTPError caught by _make_connection
    body,            \* what conn.read() returned
    response,        \* the document json.loads returned
    outcome,         \* how the call ended, as the caller sees it
    calls,           \* the calls completed on this Client
    prev_op,         \* the operation of the call completed last
    sign_seq,        \* sign_request invocations of the authenticator so far
    total_requests,  \* urlopen invocations so far
    open_conns,      \* connections opened by the client and not closed
    default_params,  \* the one mapping object that is _make_request's default
    authenticator,   \* self.authenticator
    error_handler    \* self._error_handler

vars == <<pc, call, wrapper_cls, path, url_params, signed_url, signs, requests,
          opened_url, conn, closes, error, body, response, outcome, calls,
          prev_op,
          sign_seq, total_requests, open_conns, default_params, authenticator,
          error_handler>>

percall == <<call, wrapper_cls, path, url_params, signed_url, signs, requests,
             opened_url, conn, closes, error, body, response, outcome>>
client == <<default_params, authenticator, error_handler>>
counters == <<calls, prev_op, sign_seq, total_requests, open_conns>>

NoCall == [op |-> NoValue, text |-> <<>>, nums |-> <<>>, kw |-> <<>>]
NoDict == [id |-> -1, map |-> <<>>]
NoUrl == [url |-> <<>>, params |-> <<>>, dict |-> -1, serial |-> 0]
NoOutcome == [kind |-> "none", cls |-> NoValue, value |-> NoValue]
\* the identity of the mapping object created at "def _make_request(..., url_params={})"
DefaultDictId == 0

Init ==
    /\ pc = "idle"
    /\ call = NoCall
    /\ wrapper_cls = NoValue
    /\ path = <<>>
    /\ url_params = NoDict
    /\ signed_url = NoUrl
    /\ signs = 0
    /\ requests = 0
    /\ opened_url = NoUrl
    /\ conn = "none"
    /\ closes = 0
    /\ error = NoError
    /\ body = NoValue
    /\ response = NoValue
    /\ outcome = NoOutcome
    /\ calls = 0
    /\ prev_op = NoValue
    /\ sign_seq = 0
    /\ total_requests = 0
    /\ open_conns = 0
    /\ default_params = <<>>
    /\ authenticator = "authenticator"
    /\ error_handler = "ErrorHandler()"


(***************************************************************************)
(* Collaborators: the authenticator, json and the error handler            *)
(***************************************************************************)
\* authenticator.sign_request(url, url_params): the signed URL carries the
\* URL, the parameters of the mapping it was given, which mapping object
\* that was, and the serial number of the invocation that produced it
sign_request(url, params, serial) ==
    [url |-> url, params |-> params.map, dict |-> params.id, serial |-> serial]

\* json.loads: the parsed document, or NoValue where it raises ValueError
json_loads(text) ==
    CASE text = "{\"name\": \"a\"}" -> "dict(name='a')"
      [] text = "{\"total\": 0}" -> "dict(total=0)"
      [] OTHER -> NoValue

\* ErrorHandler.raise_error(error): always raises, with the exception class
\* selected by the error id of the response
raise_error(e) ==
    [kind |-> "error",
     cls |-> CASE e.id = "INVALID_PARAMETER" -> "InvalidParameter"
               [] e.id = "BUSINESS_UNAVAILABLE" -> "BusinessUnavailable"
               [] OTHER -> "InternalError",
     value |-> e.id]

Raised(cls) == [kind |-> "error", cls |-> cls, value |-> NoValue]
Wrapped(cls, document) == [kind |-> "wrapper", cls |-> cls, value |-> document]

(***************************************************************************)
(* The public operations: each builds its mapping and calls _make_request  *)
(***************************************************************************)
\* a slip: the call works on _make_request's default mapping object
Kwargs_shared(kw) == [id |-> DefaultDictId, map |-> kw]

\* the mapping object Python creates for **url_params at every call
Kwargs(kw) == [id |-> calls + 1, map |-> kw]

Enter(op, text, nums, kw, cls, p, params) ==
    /\ pc = "idle"
    /\ calls < MaxCalls
    /\ call' = [op |-> op, text |-> text, nums |-> nums, kw |-> kw]
    /\ wrapper_cls' = cls
    /\ path' = p
    /\ url_params' = params
    /\ pc' = "request"
    /\ UNCHANGED <<signed_url, signs, requests, opened_url, conn, closes,
                   error, body, response, outcome>>
    /\ UNCHANGED <<client, counters>>

get_business ==
    \E business_id \in BusinessIds, kw \in UrlParams :
        Enter("get_business", business_id, <<>>, kw, "BusinessResponse",
              BUSINESS_PATH \o business_id, Kwargs(kw))

\* a slip in search: "if current_lat and current_long", so that 0 is unset
SearchParams_truthy(location, current_lat, current_long, kw) ==
    LET withLocation == DictSet(kw, "location", location)
        truthy(x) == x # None /\ x.v # 0
    IN  IF truthy(current_lat) /\ truthy(current_long)
        THEN DictSet(withLocation, "cll",
                     _format_current_lat_long(current_lat, current_long))
        ELSE withLocation

SearchParams(location, current_lat, current_long, kw) ==
    LET withLocation == DictSet(kw, "location", location)
    IN  IF current_lat # None /\ current_long # None
        THEN DictSet(withLocation, "cll",
                     _format_current_lat_long(current_lat, current_long))
        ELSE withLocation

search ==
    \E location \in Locations, current_lat \in Opts, current_long \in Opts,
       kw \in UrlParams :
        Enter("search", location, <<current_lat, current_long>>, kw,
              "SearchResponse", SEARCH_PATH,
              Kwargs(SearchParams(location, current_lat, current_long, kw)))

search_by_bounding_box ==
    \E sw_latitude \in Nums, sw_longitude \in Nums, ne_latitude \in Nums,
       ne_longitude \in Nums, kw \in UrlParams :
        Enter("search_by_bounding_box", <<>>,
              <<sw_latitude, sw_longitude, ne_latitude, ne_longitude>>, kw,
              "SearchResponse", SEARCH_PATH,
              Kwargs(DictSet(kw, "bounds",
                             _format_bounds(sw_latitude, sw_longitude,
                                            ne_latitude, ne_longitude))))

search_by_coordinates ==
    \E latitude \in Nums, longitude \in Nums, accuracy \in Accuracies,
       altitude \in Altitudes, altitude_accuracy \in Accuracies,
       kw \in UrlParams :
        Enter("search_by_coordinates", <<>>,
              <<latitude, longitude, accuracy, altitude, altitude_accuracy>>,
              kw, "SearchResponse", SEARCH_PATH,
              Kwargs(DictSet(kw, "ll",
                             _format_coordinates(latitude, longitude, accuracy,
                                                 altitude, altitude_accuracy))))

phone_search ==
    \E phone \in Phones, kw \in UrlParams :
        Enter("phone_search", phone, <<>>, kw, "SearchResponse",
              PHONE_SEARCH_PATH, Kwargs(DictSet(kw, "phone", phone)))

(***************************************************************************)
(* _make_request and _make_connection                                      *)
(***************************************************************************)
\* what _make_request leaves alone
MakeRequestFrame ==
    /\ pc' = "connect"
    /\ UNCHANGED <<call, wrapper_cls, path, url_params, requests, opened_url,
                   conn, closes, error, body, response, outcome>>
    /\ UNCHANGED <<client, calls, prev_op, total_requests, open_conns>>

\* the URL _make_request builds: host and quoted path
BaseUrl == <<"https://">> \o API_HOST \o Quote(path) \o <<"?">>

\* a slip in _make_request: the URL goes to _make_connection unsigned
make_request_unsigned ==
    /\ pc = "request"
    /\ signed_url' = [url |-> BaseUrl, params |-> url_params.map,
                      dict |-> url_params.id, serial |-> 0]
    /\ UNCHANGED <<signs, sign_seq>>
    /\ MakeRequestFrame

\* _make_request: quote the path, have the authenticator sign the URL and
\* the mapping, hand the signed URL to _make_connection
_make_request ==
    /\ pc = "request"
    /\ signed_url' = sign_request(BaseUrl, url_params, sign_seq + 1)
    /\ signs' = signs + 1
    /\ sign_seq' = sign_seq + 1
    /\ MakeRequestFrame

\* n invocations of urllib2.urlopen(signed_url, None)
Opened(n) ==
    /\ requests' = requests + n
    /\ total_requests' = total_requests + n
    /\ opened_url' = signed_url
    /\ UNCHANGED <<call, wrapper_cls, path, url_params, signed_url, signs,
                   closes, body, response>>
    /\ UNCHANGED <<client, calls, prev_op, sign_seq>>

\* urlopen returns the connection
Connected ==
    /\ conn' = "open"
    /\ open_conns' = open_conns + 1
    /\ pc' = "read"
    /\ UNCHANGED <<error, outcome>>

\* the call ends with what the except clause, or no clause, makes of a failure
Failed(e, result) ==
    /\ error' = e
    /\ outcome' = result
    /\ pc' = "done"
    /\ UNCHANGED <<conn, open_conns>>

\* a slip in _make_connection: a second attempt after an HTTP error
urlopen_retry ==
    /\ pc = "connect"
    /\ \/ Opened(1) /\ Connected
       \/ \E e \in HttpErrors : Opened(2) /\ Failed(e, raise_error(e))
       \/ Opened(1) /\ Failed(NoError, Raised("URLError"))

\* a slip in _make_connection: the except clause falls through, the method
\* returns None and the operation wraps it
urlopen_swallow ==
    /\ pc = "connect"
    /\ \/ Opened(1) /\ Connected
       \/ \E e \in HttpErrors :
             Opened(1) /\ Failed(e, Wrapped(wrapper_cls, NoValue))
       \/ Opened(1) /\ Failed(NoError, Raised("URLError"))

\* _make_connection, up to the answer of urllib2.urlopen(signed_url, None)
urlopen ==
    /\ pc = "connect"
    /\ \/ \* a success status: the connection is returned
          Opened(1) /\ Connected
       \/ \* except urllib2.HTTPError as error: the error handler raises
          \E e \in HttpErrors : Opened(1) /\ Failed(e, raise_error(e))
       \/ \* urllib2.URLError (no answer at all) is not caught
          Opened(1) /\ Failed(NoError, Raised("URLError"))

\* conn.close()
Close ==
    /\ conn' = "closed"
    /\ closes' = closes + 1
    /\ open_conns' = open_conns - 1

\* the call ends after the body was asked for
Answered(read, document, result) ==
    /\ body' = read
    /\ response' = document
    /\ outcome' = result
    /\ pc' = "done"
    /\ UNCHANGED <<call, wrapper_cls, path, url_params, signed_url, signs,
                   requests, opened_url, error>>
    /\ UNCHANGED <<client, calls, prev_op, sign_seq, total_requests>>

\* a slip in _make_connection: the parse error is caught and the operation
\* wraps an absent document
read_response_partial ==
    /\ pc = "read"
    /\ Close
    /\ \/ \E b \in Bodies :
             /\ json_loads(b) # NoValue
             /\ Answered(b, json_loads(b),
                         Wrapped(wrapper_cls, json_loads(b)))
       \/ \E b \in Bodies :
             /\ json_loads(b) = NoValue
             /\ Answered(b, NoValue, Wrapped(wrapper_cls, NoValue))
       \/ Answered(NoValue, NoValue, Raised("IOError"))

\* a slip in _make_connection: conn.close() after the parse, not in a
\* finally clause
read_response_no_finally ==
    /\ pc = "read"
    /\ \/ \E b \in Bodies :
             /\ json_loads(b) # NoValue
             /\ Close
             /\ Answered(b, json_loads(b),
                         Wrapped(wrapper_cls, json_loads(b)))
       \/ \E b \in Bodies :
             /\ json_loads(b) = NoValue
             /\ UNCHANGED <<conn, closes, open_conns>>
             /\ Answered(b, NoValue, Raised("ValueError"))
       \/ /\ UNCHANGED <<conn, closes, open_conns>>
          /\ Answered(NoValue, NoValue, Raised("IOError"))

\* _make_connection's else branch: json.loads(conn.read()), conn.close() in
\* the finally clause, and the wrapper the operation builds over the document
read_response ==
    /\ pc = "read"
    /\ Close
    /\ \/ \* the body parses
          \E b \in Bodies :
             /\ json_loads(b) # NoValue
             /\ Answered(b, json_loads(b),
                         Wrapped(wrapper_cls, json_loads(b)))
       \/ \* json.loads raises ValueError
          \E b \in Bodies :
             /\ json_loads(b) = NoValue
             /\ Answered(b, NoValue, Raised("ValueError"))
       \/ \* conn.read() raises
          Answered(NoValue, NoValue, Raised("IOError"))

\* the call is over: its result or exception is with the caller, its locals
\* are gone
finish ==
    /\ pc = "done"
    /\ pc' = "idle"
    /\ calls' = calls + 1
    /\ prev_op' = call.op
    /\ call' = NoCall
    /\ wrapper_cls' = NoValue
    /\ path' = <<>>
    /\ url_params' = NoDict
    /\ signed_url' = NoUrl
    /\ signs' = 0
    /\ requests' = 0
    /\ opened_url' = NoUrl
    /\ conn' = "none"
    /\ closes' = 0
    /\ error' = NoError
    /\ body' = NoValue
    /\ response' = NoValue
    /\ outcome' = NoOutcome
    /\ UNCHANGED <<client, sign_seq, total_requests, open_conns>>

Next ==
    \/ get_business
    \/ search
    \/ search_by_bounding_box
    \/ search_by_coordinates
    \/ phone_search
    \/ _make_request
    \/ urlopen
    \/ read_response
    \/ finish

Spec == Init /\ [][Next]_vars

(***************************************************************************)
(* Properties                                                              *)
(***************************************************************************)
Built == pc \in {"request", "connect", "read", "done"}
Signed == pc \in {"connect", "read", "done"}
Over == pc = "done"

\* the strings of parts with sep between each two
RECURSIVE JoinWith(_, _)
JoinWith(parts, sep) ==
    IF parts = <<>> THEN <<>>
    ELSE IF Len(parts) = 1 THEN parts[1]
    ELSE parts[1] \o <<sep>> \o JoinWith(Tail(parts), sep)

Count(s, c) == Cardinality({i \in 1..Len(s) : s[i] = c})

\* the length of the longest leading run of fields that holds no None
LeadingRun(fields) ==
    CHOOSE k \in 0..Len(fields) :
        /\ \A i \in 1..k : fields[i] # None
        /\ k < Len(fields) => fields[k + 1] = None

\* the value C1 states for the arguments <<latitude, longitude, accuracy,
\* altitude, altitude_accuracy>>
ExpectedLL(nums) ==
    LET k == LeadingRun(SubSeq(nums, 3, 5))
    IN  JoinWith([i \in 1..(2 + k) |-> Str(nums[i])], ",")

\* C1: the 'll' value search_by_coordinates builds and has signed is
\* 'latitude,longitude' followed by exactly the longest leading run of
\* (accuracy, altitude, altitude_accuracy) without an unset value, comma
\* separated: formatting stops at the first omitted field.
C1_CoordinatesStopAtFirstOmitted ==
    call.op = "search_by_coordinates" =>
        /\ url_params.map["ll"] = ExpectedLL(call.nums)
        /\ Count(url_params.map["ll"], ",")
               = 1 + LeadingRun(SubSeq(call.nums, 3, 5))
        /\ Signed => signed_url.params["ll"] = ExpectedLL(call.nums)

\* accuracy unset, altitude set: the signed 'll' is "37.8,-122.4" alone
C1_Witness ==
    /\ pc = "connect"
    /\ call.op = "search_by_coordinates"
    /\ call.nums = <<PyFloat(378), PyFloat(-1224), None, PyFloat(25), PyInt(0)>>
    /\ signed_url.params["ll"]
           = <<"3", "7", ".", "8", ",", "-", "1", "2", "2", ".", "4">>

\* C2: the 'bounds' value search_by_bounding_box builds and has signed is
\* exactly 'sw_latitude,sw_longitude|ne_latitude,ne_longitude': one '|'
\* between the two pairs, one comma inside each pair.
C2_BoundsExactFormat ==
    call.op = "search_by_bounding_box" =>
        LET expected ==
                JoinWith(<<JoinWith(<<Str(call.nums[1]), Str(call.nums[2])>>, ","),
                           JoinWith(<<Str(call.nums[3]), Str(call.nums[4])>>, ",")>>,
                         "|")
        IN  /\ url_params.map["bounds"] = expected
            /\ Count(url_params.map["bounds"], "|") = 1
            /\ Count(url_params.map["bounds"], ",") = 2
            /\ Signed => signed_url.params["bounds"] = expected

\* south-west (-122.4, 37.8), north-east (37.8, -122.4)
C2_Witness ==
    /\ pc = "connect"
    /\ call.op = "search_by_bounding_box"
    /\ signed_url.params["bounds"]
           = <<"-", "1", "2", "2", ".", "4", ",", "3", "7", ".", "8", "|",
               "3", "7", ".", "8", ",", "-", "1", "2", "2", ".", "4">>

\* C3: every call of a public operation issues exactly one HTTP request,
\* whatever its outcome: none is skipped and none is repeated, so the
\* requests issued are as many as the calls made.
C3_ExactlyOneRequestPerCall ==
    /\ requests <= 1
    /\ pc \in {"read", "done"} => requests = 1
    /\ pc \in {"idle", "request", "connect"} => requests = 0
    /\ total_requests = calls + requests

\* a second call that ended in a parse error, after one request of its own
C3_Witness ==
    /\ Over
    /\ calls = 1
    /\ outcome.cls = "ValueError"
    /\ requests = 1
    /\ total_requests = 2

\* C4: a call whose request was answered with a non-success status ends in
\* the error the error handler selects for that answer; no wrapper is
\* produced, and no call returns a wrapper over an absent document.
C4_HttpErrorRaisesNoWrapper ==
    /\ (Over /\ error # NoError) =>
           /\ outcome.kind = "error"
           /\ outcome = raise_error(error)
           /\ response = NoValue
    /\ error # NoError => pc = "done" /\ conn = "none" /\ body = NoValue
    /\ outcome.kind = "wrapper" => error = NoError

\* get_business answered 400 INVALID_PARAMETER
C4_Witness ==
    /\ Over
    /\ call.op = "get_business"
    /\ error = [code |-> 400, id |-> "INVALID_PARAMETER"]
    /\ outcome.kind = "error"
    /\ outcome.cls = "InvalidParameter"

\* the names of the parameters an operation sets itself
OwnKeys(c) ==
    CASE c.op = "search" ->
            IF c.nums[1] # None /\ c.nums[2] # None
            THEN {"location", "cll"} ELSE {"location"}
      [] c.op = "search_by_bounding_box" -> {"bounds"}
      [] c.op = "search_by_coordinates" -> {"ll"}
      [] c.op = "phone_search" -> {"phone"}
      [] OTHER -> {}

\* the value an operation gives to its own parameter k
OwnValue(c, k) ==
    CASE k = "location" -> c.text
      [] k = "phone" -> c.text
      [] k = "cll" -> JoinWith(<<Str(c.nums[1]), Str(c.nums[2])>>, ",")
      [] k = "bounds" ->
            JoinWith(<<JoinWith(<<Str(c.nums[1]), Str(c.nums[2])>>, ","),
                       JoinWith(<<Str(c.nums[3]), Str(c.nums[4])>>, ",")>>, "|")
      [] OTHER -> ExpectedLL(c.nums)

\* C5 as stated: the signed request holds every supplied parameter with the
\* value the caller gave, plus the operation's own parameter, and nothing
\* else.
C5_Original ==
    Signed =>
        /\ DOMAIN signed_url.params = DOMAIN call.kw \cup OwnKeys(call)
        /\ \A k \in DOMAIN call.kw : signed_url.params[k] = call.kw[k]

\* C5, amended: the signed request holds every supplied parameter and the
\* operation's own parameter, each once and nothing else; a supplied
\* parameter has the caller's value unless it bears the name of the
\* operation's own parameter, which always has the operation's value.
C5_SuppliedParamsSigned ==
    Signed =>
        /\ DOMAIN signed_url.params = DOMAIN call.kw \cup OwnKeys(call)
        /\ \A k \in DOMAIN call.kw \ OwnKeys(call) :
               signed_url.params[k] = call.kw[k]
        /\ \A k \in OwnKeys(call) : signed_url.params[k] = OwnValue(call, k)

\* the caller gave 'term' and 'bounds' to search_by_bounding_box: 'term' is
\* signed as given, 'bounds' with the operation's value
C5_Witness ==
    /\ pc = "connect"
    /\ call.op = "search_by_bounding_box"
    /\ DOMAIN call.kw = {"term", "bounds"}
    /\ signed_url.params["term"] = <<"f", "o", "o", "d">>
    /\ signed_url.params["bounds"] # call.kw["bounds"]

\* C6: when the request succeeds and the body is not valid JSON, the call
\* ends in the parse error: no wrapper, no document, and one request only.
C6_ParseFailureIsFatal ==
    (Over /\ body # NoValue /\ json_loads(body) = NoValue) =>
        /\ outcome = Raised("ValueError")
        /\ response = NoValue
        /\ requests = 1
        /\ total_requests = calls + 1

\* get_business, answered with a malformed body
C6_Witness ==
    /\ Over
    /\ call.op = "get_business"
    /\ body = "{\"name\": "
    /\ outcome = Raised("ValueError")
    /\ requests = 1

\* C7: in each call sign_request is invoked exactly once, before the
\* connection is opened; the URL opened is the one sign_request returned in
\* this call, never one of an earlier call.
C7_SignedOnceBeforeOpen ==
    /\ signs <= 1
    /\ Signed => signs = 1
    /\ pc \in {"idle", "request"} => signs = 0 /\ requests = 0
    /\ sign_seq = calls + signs
    /\ requests > 0 =>
           /\ signs = 1
           /\ opened_url = signed_url
           /\ opened_url.serial = calls + 1
           /\ opened_url.url = <<"https://">> \o API_HOST \o Quote(path) \o <<"?">>

\* the second call, its connection open on the URL signed second
C7_Witness ==
    /\ pc = "read"
    /\ calls = 1
    /\ signs = 1
    /\ opened_url.serial = 2
    /\ opened_url = signed_url

\* C8 as stated: search sends 'location' as given, and 'cll', formatted
\* 'current_lat,current_long', if and only if both are set.
C8_Original ==
    (call.op = "search" /\ Signed) =>
        LET both == call.nums[1] # None /\ call.nums[2] # None
        IN  /\ signed_url.params["location"] = call.text
            /\ "cll" \in DOMAIN signed_url.params <=> both
            /\ both => signed_url.params["cll"]
                           = JoinWith(<<Str(call.nums[1]), Str(call.nums[2])>>, ",")

\* C8, amended: search sends 'location' as given; with both current_lat and
\* current_long set (0 counts as set) it sends 'cll' formatted
\* 'current_lat,current_long'; otherwise it adds no 'cll', so that 'cll' is
\* sent only if the caller supplied one among url_params, and as supplied.
C8_SearchLocationAndCll ==
    (call.op = "search" /\ Signed) =>
        LET both == call.nums[1] # None /\ call.nums[2] # None
        IN  /\ signed_url.params["location"] = call.text
            /\ both =>
                   /\ "cll" \in DOMAIN signed_url.params
                   /\ signed_url.params["cll"]
                          = JoinWith(<<Str(call.nums[1]), Str(call.nums[2])>>, ",")
            /\ ~both =>
                   /\ "cll" \in DOMAIN signed_url.params
                          <=> "cll" \in DOMAIN call.kw
                   /\ "cll" \in DOMAIN call.kw =>
                          signed_url.params["cll"] = call.kw["cll"]

\* current_lat 0 and current_long 2.5: 'cll' is "0,2.5"
C8_Witness ==
    /\ pc = "connect"
    /\ call.op = "search"
    /\ call.nums = <<PyInt(0), PyFloat(25)>>
    /\ "cll" \notin DOMAIN call.kw
    /\ signed_url.params["cll"] = <<"0", ",", "2", ".", "5">>
    /\ signed_url.params["location"] = <<"S", "F">>

\* C9: a connection that was opened is closed before the call ends, on every
\* path and exactly once; between calls none is open.
C9_ConnectionClosedOnce ==
    /\ closes <= 1
    /\ open_conns = IF conn = "open" THEN 1 ELSE 0
    /\ conn = "open" => pc = "read"
    /\ conn = "closed" <=> closes = 1
    /\ (Over /\ (outcome.kind = "wrapper" \/ outcome.cls \in {"ValueError", "IOError"}))
           => conn = "closed"
    /\ pc \in {"idle", "done"} => open_conns = 0

\* reading the body failed: the connection is closed, once
C9_Witness ==
    /\ Over
    /\ outcome = Raised("IOError")
    /\ conn = "closed"
    /\ closes = 1
    /\ open_conns = 0

\* the path an operation asks for
PathOf(c) ==
    CASE c.op = "get_business" -> BUSINESS_PATH \o c.text
      [] c.op = "phone_search" -> PHONE_SEARCH_PATH
      [] OTHER -> SEARCH_PATH

\* C10: calls are stateless: the path and the mapping handed to the
\* authenticator come from this call's arguments alone, the mapping is the
\* call's own object and never _make_request's default, which stays empty,
\* and the client's authenticator and error handler never change.
C10_CallsAreStateless ==
    /\ default_params = <<>>
    /\ authenticator = "authenticator"
    /\ error_handler = "ErrorHandler()"
    /\ Built =>
           /\ path = PathOf(call)
           /\ url_params.id = calls + 1
           /\ url_params.id # DefaultDictId
           /\ DOMAIN url_params.map \subseteq DOMAIN call.kw \cup OwnKeys(call)
    /\ Signed =>
           /\ signed_url.dict = url_params.id
           /\ signed_url.params = url_params.map
    /\ ~Built => url_params = NoDict /\ path = <<>>

\* after a search_by_coordinates, a get_business without parameters signs an
\* empty mapping
C10_Witness ==
    /\ pc = "connect"
    /\ calls = 1
    /\ prev_op = "search_by_coordinates"
    /\ call.op = "get_business"
    /\ call.kw = <<>>
    /\ signed_url.params = <<>>
    /\ signed_url.dict = 2

====
